---- MODULE Spec2Model ----
(***************************************************************************)
(* The media relay of src/index.js, app.ws("/media-stream") (lines 50-106; *)
(* the same relay appears twice more in src/unnamed/part_000).  One        *)
(* session bridges the Twilio socket `ws` (the Carrier Leg) and the        *)
(* ElevenLabs socket `elevenLabsWs` (the Agent Leg).                       *)
(*                                                                         *)
(* A base64 string is a sequence of characters, each character the number  *)
(* of its place in the base64 alphabet (0..63: 'A' is 0, 'Q' is 16) and    *)
(* 64 for the padding character '='.  A decoded buffer is a sequence of    *)
(* bytes 0..255.                                                           *)
(***************************************************************************)
EXTENDS Integers, Sequences, FiniteSets, TLC

VARIABLES
    streamSid,       \* let streamSid (index.js:52)
    wsState,         \* ws.readyState, the Carrier Leg
    elevenLabsState, \* elevenLabsWs.readyState, the Agent Leg
    elevenLabsOpened, \* elevenLabsWs has emitted "open"
    toTwilio,        \* the frames put on the Carrier Leg, in order
    toElevenLabs,    \* the frames put on the Agent Leg, in order
    crashed,         \* an exception left a handler uncaught
    peer,            \* another connection to /media-stream, with its own closure
    steps,           \* number of message handlers run
    nStop,           \* number of Carrier `stop` frames handled
    handled,         \* number of frames handled, for each kind that is translated
    switchRelay,     \* the switch-based relay (part_000:50-130), given the same events
    last             \* the handler that ran last, what it saw and what it sent

vars == <<streamSid, wsState, elevenLabsState, elevenLabsOpened, toTwilio,
          toElevenLabs, crashed, peer, steps, nStop, handled, switchRelay,
          last>>

\* Number of inbound frames handled in one session.
MaxSteps == 4

Null == "null"
Sids == {"SID1", "SID2"}

----------------------------------------------------------------------------
(* Base64, as Buffer.from(s, "base64") and buf.toString("base64") compute it *)

RECURSIVE SextetsToBytes(_)
\* Four sextets give three bytes; a trailing group of three gives two bytes, of
\* two gives one byte (the bits left over are discarded), of one gives none.
SextetsToBytes(s) ==
    IF Len(s) >= 4
    THEN LET n == s[1] * 262144 + s[2] * 4096 + s[3] * 64 + s[4]
         IN  <<n \div 65536, (n \div 256) % 256, n % 256>>
                 \o SextetsToBytes(SubSeq(s, 5, Len(s)))
    ELSE IF Len(s) = 3
    THEN LET n == s[1] * 4096 + s[2] * 64 + s[3]
         IN  <<n \div 1024, (n \div 4) % 256>>
    ELSE IF Len(s) = 2
    THEN <<(s[1] * 64 + s[2]) \div 16>>
    ELSE <<>>

IsSextet(c) == c < 64

\* Buffer.from(payload, "base64"): characters outside the alphabet, the padding
\* included, are skipped; the rest is decoded.
B64Decode(s) == SextetsToBytes(SelectSeq(s, IsSextet))

RECURSIVE B64EncodeUrl(_)
\* buf.toString("base64url"): the same characters without the '=' padding.
B64EncodeUrl(b) ==
    IF Len(b) >= 3
    THEN LET n == b[1] * 65536 + b[2] * 256 + b[3]
         IN  <<n \div 262144, (n \div 4096) % 64, (n \div 64) % 64, n % 64>>
                 \o B64EncodeUrl(SubSeq(b, 4, Len(b)))
    ELSE IF Len(b) = 2
    THEN LET n == (b[1] * 256 + b[2]) * 4
         IN  <<n \div 4096, (n \div 64) % 64, n % 64>>
    ELSE IF Len(b) = 1
    THEN LET n == b[1] * 16
         IN  <<n \div 64, n % 64>>
    ELSE <<>>

RECURSIVE B64Encode(_)
\* buf.toString("base64"): three bytes give four characters; the last group is
\* filled with zero bits and padded with '='.
B64Encode(b) ==
    IF Len(b) >= 3
    THEN LET n == b[1] * 65536 + b[2] * 256 + b[3]
         IN  <<n \div 262144, (n \div 4096) % 64, (n \div 64) % 64, n % 64>>
                 \o B64Encode(SubSeq(b, 4, Len(b)))
    ELSE IF Len(b) = 2
    THEN LET n == (b[1] * 256 + b[2]) * 4
         IN  <<n \div 4096, (n \div 64) % 64, n % 64, 64>>
    ELSE IF Len(b) = 1
    THEN LET n == b[1] * 16
         IN  <<n \div 64, n % 64, 64, 64>>
    ELSE <<>>

\* Buffer.from(data.media.payload, "base64").toString("base64")
Reencode(p) == B64Encode(B64Decode(p))

----------------------------------------------------------------------------
(* Inbound frames.  ok: JSON.parse succeeds; tag: data.event / message.type; *)
(* body: the payload object (data.start, data.media, message.audio_event,    *)
(* message.ping_event) is present.                                           *)

InFrame(ok, tag, body, sid, payload, eid) ==
    [ok |-> ok, tag |-> tag, body |-> body, sid |-> sid,
     payload |-> payload, eid |-> eid]

Unparseable == InFrame(FALSE, "", FALSE, Null, <<>>, 0)
NoFrame == InFrame(FALSE, "none", FALSE, Null, <<>>, 0)

\* Carrier frames
StartFrame(s) == InFrame(TRUE, "start", TRUE, s, <<>>, 0)
StartNoBody == InFrame(TRUE, "start", FALSE, Null, <<>>, 0)
MediaFrame(p) == InFrame(TRUE, "media", TRUE, Null, p, 0)
MediaNoBody == InFrame(TRUE, "media", FALSE, Null, <<>>, 0)
StopFrame == InFrame(TRUE, "stop", FALSE, Null, <<>>, 0)
OtherEvent == InFrame(TRUE, "mark", FALSE, Null, <<>>, 0)

\* "QQ==", "QUI=", "QUJD": the encodings of the buffers "A", "AB", "ABC"
CanonicalPayloads == {<<16, 16, 64, 64>>, <<16, 20, 8, 64>>, <<16, 20, 9, 3>>}
\* "QR==", "QUJ=": padded, with non-zero bits after the last byte
PaddedPayloads == CanonicalPayloads \cup {<<16, 17, 64, 64>>, <<16, 20, 9, 64>>}
\* "QQ": without padding
CarrierPayloads == PaddedPayloads \cup {<<16, 16>>}

CarrierFrames ==
    {Unparseable, StartNoBody, MediaNoBody, StopFrame, OtherEvent}
        \cup {StartFrame(s) : s \in Sids}
        \cup {MediaFrame(p) : p \in CarrierPayloads}

\* Agent frames
AudioFrame(p) == InFrame(TRUE, "audio", TRUE, Null, p, 0)
AudioNoBody == InFrame(TRUE, "audio", FALSE, Null, <<>>, 0)
InterruptionFrame == InFrame(TRUE, "interruption", FALSE, Null, <<>>, 0)
PingFrame(x) == InFrame(TRUE, "ping", TRUE, Null, <<>>, x)
PingNoBody == InFrame(TRUE, "ping", FALSE, Null, <<>>, 0)
OtherType == InFrame(TRUE, "agent_response", FALSE, Null, <<>>, 0)

\* "QUI=" and the empty string
AgentPayloads == {<<16, 20, 8, 64>>, <<>>}
EventIds == {0, 1, 2}

AgentFrames ==
    {Unparseable, AudioNoBody, InterruptionFrame, PingNoBody, OtherType}
        \cup {AudioFrame(p) : p \in AgentPayloads}
        \cup {PingFrame(x) : x \in EventIds}

(* Outbound frames *)
MediaOut(sid, p) == [event |-> "media", streamSid |-> sid, payload |-> p]
ClearOut(sid) == [event |-> "clear", streamSid |-> sid, payload |-> <<>>]
ChunkOut(p) == [type |-> "user_audio_chunk", payload |-> p, event_id |-> 0]
PongOut(x) == [type |-> "pong", payload |-> <<>>, event_id |-> x]

----------------------------------------------------------------------------
(* The sockets' send() and close(), package ws *)

\* A send() that puts the frame on an open socket twice.
WsSendTwice(rs, frame) ==
    [sent |-> IF rs = "OPEN" THEN <<frame, frame>> ELSE <<>>,
     threw |-> rs = "CONNECTING"]

\* socket.send(frame) with the socket in readyState rs: the frame goes out when
\* the socket is OPEN; send() throws while CONNECTING; on a CLOSING or CLOSED
\* socket the frame is discarded without an error.
WsSend(rs, frame) ==
    [sent |-> IF rs = "OPEN" THEN <<frame>> ELSE <<>>,
     threw |-> rs = "CONNECTING"]

\* if (socket.readyState === WebSocket.OPEN) socket.close(): a socket that is
\* still connecting is left to connect.
WsCloseIfOpen(rs) == IF rs = "OPEN" THEN "CLOSING" ELSE rs

\* socket.close() with the socket in readyState rs: a CONNECTING socket aborts
\* its handshake, an OPEN one starts the closing handshake, and on a CLOSING or
\* CLOSED socket close() does nothing.
WsClose(rs) == IF rs = "CLOSED" THEN "CLOSED" ELSE "CLOSING"

\* A frame ahead of the frames already written to the socket.
TransmitAhead(written, sent) == sent \o written

\* The frames a handler's send() calls put on a socket follow the frames the
\* socket has already been given.
Transmit(written, sent) == written \o sent

----------------------------------------------------------------------------
(* The handlers.  An effect is what one run of a handler does: the new     *)
(* streamSid, the new readyState of elevenLabsWs, the frames that went out *)
(* on each leg, whether an exception is leaving the code (threw) and       *)
(* whether one was logged by a catch block (caught).                       *)

Effect(sid, el, outA, outC, threw) ==
    [streamSid |-> sid, elevenLabs |-> el, outA |-> outA, outC |-> outC,
     threw |-> threw, caught |-> FALSE]

\* A handler without its try block: the exception leaves the handler.
TryCatchRethrows(e) == e

\* try { ... } catch (err) { console.error(...) }: the exception is logged.
TryCatch(e) == [e EXCEPT !.threw = FALSE, !.caught = e.threw]

\* An audio branch that tags the frame with the initial streamSid.
AudioBranchUntagged(message, sid, ws, el) ==
    LET r == WsSend(ws, MediaOut(Null, message.payload))
    IN  Effect(sid, el, <<>>, r.sent, r.threw)

\* An audio branch that waits for `start`: without a streamSid it sends nothing.
AudioBranchAfterStart(message, sid, ws, el) ==
    LET r == WsSend(ws, MediaOut(sid, message.payload))
    IN  IF sid = Null
        THEN Effect(sid, el, <<>>, <<>>, FALSE)
        ELSE Effect(sid, el, <<>>, r.sent, r.threw)

\* message.type === "audio" && message.audio_event?.audio_base_64
\* (index.js:65-72)
AudioBranch(message, sid, ws, el) ==
    LET r == WsSend(ws, MediaOut(sid, message.payload))
    IN  Effect(sid, el, <<>>, r.sent, r.threw)

\* An interruption branch that also answers on the Agent Leg.
InterruptionBranchEchoes(message, sid, ws, el) ==
    LET r == WsSend(ws, ClearOut(sid))
        q == WsSend(el, PongOut(0))
    IN  Effect(sid, el, q.sent, r.sent, r.threw \/ q.threw)

\* message.type === "interruption" (index.js:73-74)
InterruptionBranch(message, sid, ws, el) ==
    LET r == WsSend(ws, ClearOut(sid))
    IN  Effect(sid, el, <<>>, r.sent, r.threw)

\* A ping branch that sends on ws instead of elevenLabsWs.
PingBranchToCarrier(message, sid, ws, el) ==
    LET r == WsSend(ws, ClearOut(sid))
    IN  Effect(sid, el, <<>>, r.sent, r.threw)

\* message.type === "ping" && message.ping_event?.event_id (index.js:75-79)
PingBranch(message, sid, ws, el) ==
    LET r == WsSend(el, PongOut(message.eid))
    IN  Effect(sid, el, r.sent, <<>>, r.threw)

\* The try block without the ?. of message.audio_event?. and
\* message.ping_event?.: reading a property of the missing object throws.
AgentBodyStrict(message, sid, ws, el) ==
    IF ~message.ok
    THEN Effect(sid, el, <<>>, <<>>, TRUE)
    ELSE IF message.tag = "audio" /\ ~message.body
    THEN Effect(sid, el, <<>>, <<>>, TRUE)
    ELSE IF message.tag = "audio" /\ Len(message.payload) > 0
    THEN AudioBranch(message, sid, ws, el)
    ELSE IF message.tag = "interruption"
    THEN InterruptionBranch(message, sid, ws, el)
    ELSE IF message.tag = "ping" /\ ~message.body
    THEN Effect(sid, el, <<>>, <<>>, TRUE)
    ELSE IF message.tag = "ping" /\ message.eid # 0
    THEN PingBranch(message, sid, ws, el)
    ELSE Effect(sid, el, <<>>, <<>>, FALSE)

\* elevenLabsWs.on("message"), the body of the try block (index.js:64-79)
AgentBody(message, sid, ws, el) ==
    IF ~message.ok
    THEN Effect(sid, el, <<>>, <<>>, TRUE)
    ELSE IF message.tag = "audio" /\ message.body /\ Len(message.payload) > 0
    THEN AudioBranch(message, sid, ws, el)
    ELSE IF message.tag = "interruption"
    THEN InterruptionBranch(message, sid, ws, el)
    ELSE IF message.tag = "ping" /\ message.body /\ message.eid # 0
    THEN PingBranch(message, sid, ws, el)
    ELSE Effect(sid, el, <<>>, <<>>, FALSE)

\* elevenLabsWs.on("message") (index.js:62-83)
OnAgentMessage(message, sid, ws, el) == TryCatch(AgentBody(message, sid, ws, el))

\* A start branch that keeps the streamSid it has: streamSid ??= ...
StartBranchOnce(data, sid, el) ==
    IF data.body
    THEN Effect(IF sid = Null THEN data.sid ELSE sid, el, <<>>, <<>>, FALSE)
    ELSE Effect(sid, el, <<>>, <<>>, TRUE)

\* data.event === "start": streamSid = data.start.streamSid (index.js:88-90);
\* reading a property of the missing data.start throws.
StartBranch(data, sid, el) ==
    IF data.body
    THEN Effect(data.sid, el, <<>>, <<>>, FALSE)
    ELSE Effect(sid, el, <<>>, <<>>, TRUE)

\* A media branch taken without the readyState test.
MediaReadyUnchecked(el) == TRUE

\* elevenLabsWs.readyState === WebSocket.OPEN (index.js:91)
MediaReady(el) == el = "OPEN"

\* A media branch that waits for `start`: without a streamSid it sends nothing.
MediaBranchAfterStart(data, sid, el) ==
    IF ~data.body
    THEN Effect(sid, el, <<>>, <<>>, TRUE)
    ELSE IF sid = Null
    THEN Effect(sid, el, <<>>, <<>>, FALSE)
    ELSE LET r == WsSend(el, ChunkOut(B64Encode(B64Decode(data.payload))))
         IN  Effect(sid, el, r.sent, <<>>, r.threw)

\* The media branch (index.js:92-96); reading a property of the missing
\* data.media throws.
MediaBranch(data, sid, el) ==
    IF data.body
    THEN LET r == WsSend(el, ChunkOut(Reencode(data.payload)))
         IN  Effect(sid, el, r.sent, <<>>, r.threw)
    ELSE Effect(sid, el, <<>>, <<>>, TRUE)

\* A stop branch that does not close elevenLabsWs.
StopBranchIgnored(data, sid, el) == Effect(sid, el, <<>>, <<>>, FALSE)

\* data.event === "stop": elevenLabsWs.close() (index.js:97-98)
StopBranch(data, sid, el) == Effect(sid, WsClose(el), <<>>, <<>>, FALSE)

\* ws.on("message"), the body of the try block (index.js:87-99)
CarrierBody(data, sid, el) ==
    IF ~data.ok
    THEN Effect(sid, el, <<>>, <<>>, TRUE)
    ELSE IF data.tag = "start"
    THEN StartBranch(data, sid, el)
    ELSE IF data.tag = "media" /\ MediaReady(el)
    THEN MediaBranch(data, sid, el)
    ELSE IF data.tag = "stop"
    THEN StopBranch(data, sid, el)
    ELSE Effect(sid, el, <<>>, <<>>, FALSE)

\* ws.on("message") (index.js:85-103)
OnCarrierMessage(data, sid, el) == TryCatch(CarrierBody(data, sid, el))

\* The switch of the agent handler with the `break` of case "audio" missing:
\* an audio frame falls through into case "interruption".
SwitchAgentBodyFallThrough(message, sid, ws, el) ==
    IF ~message.ok
    THEN Effect(sid, el, <<>>, <<>>, TRUE)
    ELSE CASE message.tag = "audio" ->
                  LET a == IF message.body /\ Len(message.payload) > 0
                           THEN AudioBranch(message, sid, ws, el)
                           ELSE Effect(sid, el, <<>>, <<>>, FALSE)
                      c == InterruptionBranch(message, sid, ws, el)
                  IN  Effect(sid, el, <<>>, a.outC \o c.outC,
                             a.threw \/ c.threw)
           [] message.tag = "interruption" ->
                  InterruptionBranch(message, sid, ws, el)
           [] message.tag = "ping" ->
                  IF message.body /\ message.eid # 0
                  THEN PingBranch(message, sid, ws, el)
                  ELSE Effect(sid, el, <<>>, <<>>, FALSE)
           [] OTHER -> Effect(sid, el, <<>>, <<>>, FALSE)

\* The switch-based relay, elevenLabsWs.on("message"), the body of the try
\* block: switch (message.type) (part_000:65-93).  The statements of the
\* cases are those of the branches of index.js; default only logs.
SwitchAgentBody(message, sid, ws, el) ==
    IF ~message.ok
    THEN Effect(sid, el, <<>>, <<>>, TRUE)
    ELSE CASE message.tag = "audio" ->
                  IF message.body /\ Len(message.payload) > 0
                  THEN AudioBranch(message, sid, ws, el)
                  ELSE Effect(sid, el, <<>>, <<>>, FALSE)
           [] message.tag = "interruption" ->
                  InterruptionBranch(message, sid, ws, el)
           [] message.tag = "ping" ->
                  IF message.body /\ message.eid # 0
                  THEN PingBranch(message, sid, ws, el)
                  ELSE Effect(sid, el, <<>>, <<>>, FALSE)
           [] OTHER -> Effect(sid, el, <<>>, <<>>, FALSE)

\* elevenLabsWs.on("message") of the switch-based relay (part_000:63-97)
SwitchOnAgentMessage(message, sid, ws, el) ==
    TryCatch(SwitchAgentBody(message, sid, ws, el))

\* The switch-based relay, ws.on("message"), the body of the try block:
\* switch (data.event), without a default (part_000:102-123).
SwitchCarrierBody(data, sid, el) ==
    IF ~data.ok
    THEN Effect(sid, el, <<>>, <<>>, TRUE)
    ELSE CASE data.tag = "start" -> StartBranch(data, sid, el)
           [] data.tag = "media" ->
                  IF MediaReady(el)
                  THEN MediaBranch(data, sid, el)
                  ELSE Effect(sid, el, <<>>, <<>>, FALSE)
           [] data.tag = "stop" -> StopBranch(data, sid, el)
           [] OTHER -> Effect(sid, el, <<>>, <<>>, FALSE)

\* ws.on("message") of the switch-based relay (part_000:100-127)
SwitchOnCarrierMessage(data, sid, el) ==
    TryCatch(SwitchCarrierBody(data, sid, el))

\* A close handler of ws that only logs.
OnCarrierCloseLogsOnly(el) == el

\* ws.on("close", () => elevenLabsWs.close()) (index.js:105)
OnCarrierClose(el) == WsClose(el)

\* elevenLabsWs.on("close") and elevenLabsWs.on("error") only log
\* (index.js:59-60): the readyState of ws after the handler is the one before.
OnAgentClose(ws) == ws
OnAgentError(ws) == ws

----------------------------------------------------------------------------
(* The session *)

Event(ev, frame, eff) ==
    [ev |-> ev, frame |-> frame, sid |-> streamSid, ws |-> wsState,
     el |-> elevenLabsState, nA |-> Len(toElevenLabs), nC |-> Len(toTwilio),
     outA |-> eff.outA, outC |-> eff.outC, caught |-> eff.caught]

NoEffect == Effect(streamSid, elevenLabsState, <<>>, <<>>, FALSE)

\* An exception that nothing catches ends the Node process (index.js registers
\* no "uncaughtException" handler), and with it every socket of every session.
ProcessExit(threw, rs) == IF threw THEN "CLOSED" ELSE rs

PeerExit(threw, p) ==
    IF threw THEN [p EXCEPT !.ws = "CLOSED", !.el = "CLOSED"] ELSE p

\* The switch-based relay after a message handler with effect eff.
SwitchHandled(r, eff) ==
    [r EXCEPT !.streamSid = eff.streamSid,
              !.el = ProcessExit(eff.threw, eff.elevenLabs),
              !.ws = ProcessExit(eff.threw, @),
              !.toTwilio = Transmit(@, eff.outC),
              !.toElevenLabs = Transmit(@, eff.outA),
              !.crashed = eff.threw]

\* The switch-based relay when its process exits.
SwitchExit(threw, r) ==
    IF threw
    THEN [r EXCEPT !.ws = "CLOSED", !.el = "CLOSED", !.crashed = TRUE]
    ELSE r

\* The closure of one more call of the app.ws("/media-stream") handler
\* (index.js:50-56): its own ws, streamSid and elevenLabsWs.
NewSession ==
    [streamSid |-> Null, ws |-> "OPEN", el |-> "CONNECTING", opened |-> FALSE,
     toTwilio |-> <<>>, toElevenLabs |-> <<>>, steps |-> 0]

\* No other connection: nothing to send on, nothing to receive from.
NoSession ==
    [streamSid |-> Null, ws |-> "CLOSED", el |-> "CLOSED", opened |-> FALSE,
     toTwilio |-> <<>>, toElevenLabs |-> <<>>, steps |-> 0]

\* One more frame of its kind has come to its handler and was parsed.
Counted(h, frame) ==
    IF frame.ok /\ frame.tag \in DOMAIN h
    THEN [h EXCEPT ![frame.tag] = @ + 1]
    ELSE h

\* app.ws("/media-stream", (ws, req) => { ... }) (index.js:50-56): the Carrier
\* Leg is connected, streamSid is null and the Agent Leg starts to connect.
SessionInit ==
    /\ streamSid = Null
    /\ wsState = "OPEN"
    /\ elevenLabsState = "CONNECTING"
    /\ elevenLabsOpened = FALSE
    /\ toTwilio = <<>>
    /\ toElevenLabs = <<>>
    /\ crashed = FALSE
    /\ steps = 0
    /\ nStop = 0
    /\ handled = [media |-> 0, ping |-> 0, audio |-> 0, interruption |-> 0]
    /\ switchRelay = [streamSid |-> Null, ws |-> "OPEN", el |-> "CONNECTING",
                      toTwilio |-> <<>>, toElevenLabs |-> <<>>,
                      crashed |-> FALSE]
    /\ last = [ev |-> "connection", frame |-> NoFrame, sid |-> Null,
               ws |-> "OPEN", el |-> "CONNECTING", nA |-> 0, nC |-> 0,
               outA |-> <<>>, outC |-> <<>>, caught |-> FALSE]

\* One connection to /media-stream.
Init == SessionInit /\ peer = NoSession

\* Two connections to /media-stream, each with its session.
MultiInit == SessionInit /\ peer = NewSession

\* elevenLabsWs "open" (index.js:58)
AgentOpen ==
    /\ ~crashed
    /\ elevenLabsState = "CONNECTING"
    /\ elevenLabsState' = "OPEN"
    /\ elevenLabsOpened' = TRUE
    /\ last' = Event("agentOpen", NoFrame, NoEffect)
    /\ switchRelay' = [switchRelay EXCEPT !.el = "OPEN"]
    /\ UNCHANGED <<streamSid, wsState, toTwilio, toElevenLabs, crashed, peer, steps,
                   nStop, handled>>

\* elevenLabsWs "message" (index.js:62-83).  A socket that has opened delivers
\* messages while it is OPEN and, after its own close(), until the peer's close
\* frame arrives.
AgentMessage(message) ==
    /\ ~crashed
    /\ steps + peer.steps < MaxSteps
    /\ elevenLabsOpened
    /\ elevenLabsState \in {"OPEN", "CLOSING"}
    /\ LET eff == OnAgentMessage(message, streamSid, wsState, elevenLabsState)
       IN  /\ streamSid' = eff.streamSid
           /\ elevenLabsState' = ProcessExit(eff.threw, eff.elevenLabs)
           /\ wsState' = ProcessExit(eff.threw, wsState)
           /\ toTwilio' = Transmit(toTwilio, eff.outC)
           /\ toElevenLabs' = Transmit(toElevenLabs, eff.outA)
           /\ crashed' = eff.threw
           /\ peer' = PeerExit(eff.threw, peer)
           /\ last' = Event("agentMessage", message, eff)
    /\ steps' = steps + 1
    /\ handled' = Counted(handled, message)
    /\ switchRelay' =
           SwitchHandled(switchRelay,
                         SwitchOnAgentMessage(message, switchRelay.streamSid,
                                              switchRelay.ws, switchRelay.el))
    /\ UNCHANGED <<elevenLabsOpened, nStop>>

\* elevenLabsWs "close" (index.js:59): the remote end closed the socket, or
\* what close() started (the closing handshake, or the abort of the opening
\* one) has ended.
AgentClose ==
    /\ ~crashed
    /\ elevenLabsState \in {"OPEN", "CLOSING"}
    /\ elevenLabsState' = "CLOSED"
    /\ wsState' = OnAgentClose(wsState)
    /\ last' = Event("agentClose", NoFrame, NoEffect)
    /\ switchRelay' = [switchRelay EXCEPT !.el = "CLOSED",
                                          !.ws = OnAgentClose(@)]
    /\ UNCHANGED <<streamSid, elevenLabsOpened, toTwilio, toElevenLabs, crashed,
                   peer, steps, nStop, handled>>

\* elevenLabsWs "error" (index.js:60), followed by the socket's "close": the
\* handshake failed or the transport broke.
AgentError ==
    /\ ~crashed
    /\ elevenLabsState \in {"CONNECTING", "OPEN"}
    /\ elevenLabsState' = "CLOSED"
    /\ wsState' = OnAgentError(wsState)
    /\ last' = Event("agentError", NoFrame, NoEffect)
    /\ switchRelay' = [switchRelay EXCEPT !.el = "CLOSED",
                                          !.ws = OnAgentError(@)]
    /\ UNCHANGED <<streamSid, elevenLabsOpened, toTwilio, toElevenLabs, crashed,
                   peer, steps, nStop, handled>>

\* ws "message" (index.js:85-103)
CarrierMessage(data) ==
    /\ ~crashed
    /\ steps + peer.steps < MaxSteps
    /\ wsState = "OPEN"
    /\ LET eff == OnCarrierMessage(data, streamSid, elevenLabsState)
       IN  /\ streamSid' = eff.streamSid
           /\ elevenLabsState' = ProcessExit(eff.threw, eff.elevenLabs)
           /\ wsState' = ProcessExit(eff.threw, wsState)
           /\ toTwilio' = Transmit(toTwilio, eff.outC)
           /\ toElevenLabs' = Transmit(toElevenLabs, eff.outA)
           /\ crashed' = eff.threw
           /\ peer' = PeerExit(eff.threw, peer)
           /\ last' = Event("carrierMessage", data, eff)
    /\ steps' = steps + 1
    /\ nStop' = IF data.ok /\ data.tag = "stop" THEN nStop + 1 ELSE nStop
    /\ handled' = Counted(handled, data)
    /\ switchRelay' =
           SwitchHandled(switchRelay,
                         SwitchOnCarrierMessage(data, switchRelay.streamSid,
                                                switchRelay.el))
    /\ UNCHANGED elevenLabsOpened

\* ws "close" (index.js:105)
CarrierClose ==
    /\ ~crashed
    /\ wsState = "OPEN"
    /\ wsState' = "CLOSED"
    /\ elevenLabsState' = OnCarrierClose(elevenLabsState)
    /\ last' = Event("carrierClose", NoFrame, NoEffect)
    /\ switchRelay' = [switchRelay EXCEPT !.ws = "CLOSED",
                                          !.el = OnCarrierClose(@)]
    /\ UNCHANGED <<streamSid, elevenLabsOpened, toTwilio, toElevenLabs, crashed,
                   peer, steps, nStop, handled>>

\* ws "error": no listener is registered on ws (index.js:85-105), so the
\* event is thrown by the emitter and nothing catches it.
CarrierError ==
    /\ ~crashed
    /\ wsState = "OPEN"
    /\ crashed' = TRUE
    /\ wsState' = ProcessExit(TRUE, wsState)
    /\ elevenLabsState' = ProcessExit(TRUE, elevenLabsState)
    /\ peer' = PeerExit(TRUE, peer)
    /\ last' = Event("carrierError", NoFrame, NoEffect)
    /\ switchRelay' = SwitchExit(TRUE, switchRelay)
    /\ UNCHANGED <<streamSid, elevenLabsOpened, toTwilio, toElevenLabs, steps,
                   nStop, handled>>

Next ==
    \/ AgentOpen
    \/ \E message \in AgentFrames : AgentMessage(message)
    \/ AgentClose
    \/ AgentError
    \/ \E data \in CarrierFrames : CarrierMessage(data)
    \/ CarrierClose
    \/ CarrierError

Spec == Init /\ [][Next]_vars

\* The closing handshake of elevenLabsWs ends: the peer answers the close
\* frame or the socket's close timer destroys the connection.
FairSpec == Spec /\ WF_vars(AgentClose)

----------------------------------------------------------------------------
(* A second session of the same process: the same handlers, run on the
   variables of its own closure *)

\* The frames the two sessions receive: one of each kind the handlers
\* translate, and a `start` frame for each identifier.
PairCarrierFrames ==
    {StartFrame("SID1"), StartFrame("SID2"), MediaFrame(<<16, 16, 64, 64>>),
     StopFrame}

PairAgentFrames ==
    {AudioFrame(<<16, 20, 8, 64>>), InterruptionFrame, PingFrame(1)}

SessionVars ==
    <<streamSid, wsState, elevenLabsState, elevenLabsOpened, toTwilio,
      toElevenLabs, steps, nStop, handled, switchRelay, last>>

\* elevenLabsWs "open" (index.js:58) of the other session
PeerAgentOpen ==
    /\ ~crashed
    /\ peer.el = "CONNECTING"
    /\ peer' = [peer EXCEPT !.el = "OPEN", !.opened = TRUE]
    /\ UNCHANGED <<SessionVars, crashed>>

\* elevenLabsWs "message" (index.js:62-83) of the other session
PeerAgentMessage(message) ==
    /\ ~crashed
    /\ steps + peer.steps < MaxSteps
    /\ peer.opened
    /\ peer.el \in {"OPEN", "CLOSING"}
    /\ LET eff == OnAgentMessage(message, peer.streamSid, peer.ws, peer.el)
       IN  /\ peer' = [peer EXCEPT
                         !.streamSid = eff.streamSid,
                         !.el = ProcessExit(eff.threw, eff.elevenLabs),
                         !.ws = ProcessExit(eff.threw, @),
                         !.toTwilio = Transmit(@, eff.outC),
                         !.toElevenLabs = Transmit(@, eff.outA),
                         !.steps = @ + 1]
           /\ crashed' = eff.threw
           /\ wsState' = ProcessExit(eff.threw, wsState)
           /\ elevenLabsState' = ProcessExit(eff.threw, elevenLabsState)
           /\ switchRelay' = SwitchExit(eff.threw, switchRelay)
    /\ UNCHANGED <<streamSid, elevenLabsOpened, toTwilio, toElevenLabs, steps,
                   nStop, handled, last>>

\* elevenLabsWs "close" (index.js:59) of the other session
PeerAgentClose ==
    /\ ~crashed
    /\ peer.el \in {"OPEN", "CLOSING"}
    /\ peer' = [peer EXCEPT !.el = "CLOSED", !.ws = OnAgentClose(@)]
    /\ UNCHANGED <<SessionVars, crashed>>

\* elevenLabsWs "error" (index.js:60) of the other session
PeerAgentError ==
    /\ ~crashed
    /\ peer.el \in {"CONNECTING", "OPEN"}
    /\ peer' = [peer EXCEPT !.el = "CLOSED", !.ws = OnAgentError(@)]
    /\ UNCHANGED <<SessionVars, crashed>>

\* ws "message" (index.js:85-103) of the other session
PeerCarrierMessage(data) ==
    /\ ~crashed
    /\ steps + peer.steps < MaxSteps
    /\ peer.ws = "OPEN"
    /\ LET eff == OnCarrierMessage(data, peer.streamSid, peer.el)
       IN  /\ peer' = [peer EXCEPT
                         !.streamSid = eff.streamSid,
                         !.el = ProcessExit(eff.threw, eff.elevenLabs),
                         !.ws = ProcessExit(eff.threw, @),
                         !.toTwilio = Transmit(@, eff.outC),
                         !.toElevenLabs = Transmit(@, eff.outA),
                         !.steps = @ + 1]
           /\ crashed' = eff.threw
           /\ wsState' = ProcessExit(eff.threw, wsState)
           /\ elevenLabsState' = ProcessExit(eff.threw, elevenLabsState)
           /\ switchRelay' = SwitchExit(eff.threw, switchRelay)
    /\ UNCHANGED <<streamSid, elevenLabsOpened, toTwilio, toElevenLabs, steps,
                   nStop, handled, last>>

\* ws "close" (index.js:105) of the other session
PeerCarrierClose ==
    /\ ~crashed
    /\ peer.ws = "OPEN"
    /\ peer' = [peer EXCEPT !.ws = "CLOSED", !.el = OnCarrierClose(@)]
    /\ UNCHANGED <<SessionVars, crashed>>

\* ws "error" of the other session: thrown by the emitter, caught by nothing
PeerCarrierError ==
    /\ ~crashed
    /\ peer.ws = "OPEN"
    /\ crashed' = TRUE
    /\ peer' = PeerExit(TRUE, peer)
    /\ wsState' = ProcessExit(TRUE, wsState)
    /\ elevenLabsState' = ProcessExit(TRUE, elevenLabsState)
    /\ switchRelay' = SwitchExit(TRUE, switchRelay)
    /\ UNCHANGED <<streamSid, elevenLabsOpened, toTwilio, toElevenLabs, steps,
                   nStop, handled, last>>

MultiNext ==
    \/ AgentOpen
    \/ \E message \in PairAgentFrames : AgentMessage(message)
    \/ AgentClose
    \/ AgentError
    \/ \E data \in PairCarrierFrames : CarrierMessage(data)
    \/ CarrierClose
    \/ CarrierError
    \/ PeerAgentOpen
    \/ \E message \in PairAgentFrames : PeerAgentMessage(message)
    \/ PeerAgentClose
    \/ PeerAgentError
    \/ \E data \in PairCarrierFrames : PeerCarrierMessage(data)
    \/ PeerCarrierClose
    \/ PeerCarrierError

MultiSpec == MultiInit /\ [][MultiNext]_vars

----------------------------------------------------------------------------
(* What the last handler did *)

HandledCarrier(f) == last.ev = "carrierMessage" /\ last.frame = f
HandledAgent(f) == last.ev = "agentMessage" /\ last.frame = f
HandledCarrierTag(t) ==
    last.ev = "carrierMessage" /\ last.frame.ok /\ last.frame.tag = t

\* The last handler put no frame on either leg.
NothingSent ==
    /\ last.outA = <<>>
    /\ last.outC = <<>>
    /\ Len(toElevenLabs) = last.nA
    /\ Len(toTwilio) = last.nC

\* The last handler put exactly the frame f on the Agent Leg, nothing on the
\* Carrier Leg.
SentToAgentOnly(f) ==
    /\ last.outA = <<f>>
    /\ last.outC = <<>>
    /\ toElevenLabs = SubSeq(toElevenLabs, 1, last.nA) \o <<f>>
    /\ Len(toElevenLabs) = last.nA + 1
    /\ Len(toTwilio) = last.nC

\* The last handler put exactly the frame f on the Carrier Leg, nothing on the
\* Agent Leg.
SentToCarrierOnly(f) ==
    /\ last.outC = <<f>>
    /\ last.outA = <<>>
    /\ toTwilio = SubSeq(toTwilio, 1, last.nC) \o <<f>>
    /\ Len(toTwilio) = last.nC + 1
    /\ Len(toElevenLabs) = last.nA

\* The last handler left streamSid and both readyStates as they were.
SessionUntouched ==
    /\ streamSid = last.sid
    /\ wsState = last.ws
    /\ elevenLabsState = last.el

\* A padded base64 string: a multiple of four characters, '=' only as the last
\* one or the last two.
ValidBase64(p) ==
    /\ Len(p) % 4 = 0
    /\ \A i \in 1..Len(p) :
          /\ p[i] \in 0..64
          /\ p[i] = 64 => /\ i >= Len(p) - 1
                          /\ p[Len(p)] = 64

\* A canonical base64 string (RFC 4648, 3.5): padded, and the bits after the
\* last byte are zero.
CanonicalBase64(p) ==
    /\ ValidBase64(p)
    /\ Len(p) > 0 /\ p[Len(p)] = 64 =>
          IF p[Len(p) - 1] = 64
          THEN p[Len(p) - 2] % 16 = 0
          ELSE p[Len(p) - 1] % 4 = 0

----------------------------------------------------------------------------
(* The claims *)

\* C1 (as claimed): when the Agent Leg closes on its own (the remote end closes
\* it, or its transport fails) while the Carrier Leg is open, the relay closes
\* the Carrier Leg in the handler of that event.
C1_AgentCloseClosesCarrier ==
    (/\ last.ev \in {"agentClose", "agentError"}
     /\ last.el # "CLOSING"
     /\ last.ws = "OPEN")
        => wsState # "OPEN"

\* C2: once the Carrier Leg has closed, the Agent Leg is closing or closed (its
\* close was requested in the handler, whatever its state was), it is never
\* open again, and it eventually is closed.
C2_CarrierCloseClosesAgent ==
    /\ [](wsState = "CLOSED" => elevenLabsState \in {"CLOSING", "CLOSED"})
    /\ [][last'.ev = "carrierClose" =>
            elevenLabsState' = IF elevenLabsState = "CLOSED"
                               THEN "CLOSED" ELSE "CLOSING"]_vars
    /\ (wsState = "CLOSED") ~> (elevenLabsState = "CLOSED")

\* The Carrier Leg closed while the Agent Leg was open and no `stop` had been
\* handled, and the Agent Leg has since closed.
C2_Witness ==
    /\ last.ev = "agentClose"
    /\ last.ws = "CLOSED"
    /\ last.el = "CLOSING"
    /\ nStop = 0
    /\ elevenLabsState = "CLOSED"

\* C3 (as claimed): a `media` frame with a valid base64 payload P, handled
\* while the Agent Leg is open, puts exactly {user_audio_chunk: P} on the Agent
\* Leg and nothing on the Carrier Leg.
C3_MediaPassThrough ==
    (/\ HandledCarrierTag("media")
     /\ last.frame.body
     /\ ValidBase64(last.frame.payload)
     /\ last.el = "OPEN")
        => SentToAgentOnly(ChunkOut(last.frame.payload))

\* C3 (amended): a `media` frame with a canonical base64 payload P, handled
\* while the Agent Leg is open, puts exactly {user_audio_chunk: P} on the Agent
\* Leg and nothing on the Carrier Leg.
C3_CanonicalMediaPassThrough ==
    (/\ HandledCarrierTag("media")
     /\ last.frame.body
     /\ CanonicalBase64(last.frame.payload)
     /\ last.el = "OPEN")
        => SentToAgentOnly(ChunkOut(last.frame.payload))

\* The payload "QUI=" was passed through.
C3_Witness ==
    /\ HandledCarrier(MediaFrame(<<16, 20, 8, 64>>))
    /\ last.el = "OPEN"
    /\ toElevenLabs[Len(toElevenLabs)] = ChunkOut(<<16, 20, 8, 64>>)

\* C4: a `media` frame handled while the Agent Leg is not open puts no frame on
\* either leg and raises no error; and a user_audio_chunk frame only ever goes
\* out in the handler of a `media` frame that found the Agent Leg open, with
\* that frame's payload.
C4_MediaDroppedWhenNotOpen ==
    /\ (HandledCarrierTag("media") /\ last.el # "OPEN")
          => NothingSent /\ ~last.caught /\ ~crashed /\ SessionUntouched
    /\ (/\ Len(toElevenLabs) > last.nA
        /\ toElevenLabs[Len(toElevenLabs)].type = "user_audio_chunk")
          => /\ HandledCarrierTag("media")
             /\ last.el = "OPEN"
             /\ Len(toElevenLabs) = last.nA + 1
             /\ toElevenLabs[Len(toElevenLabs)].payload
                    = B64Encode(B64Decode(last.frame.payload))
    /\ last.ev = "agentOpen" => NothingSent

\* A `media` frame was handled while the Agent Leg was still connecting.
C4_Witness ==
    /\ HandledCarrier(MediaFrame(<<16, 16, 64, 64>>))
    /\ last.el = "CONNECTING"
    /\ toElevenLabs = <<>>

\* C5 (as claimed): an agent `audio` frame with a non-empty payload P, handled
\* with sessionId set to S, puts exactly {event: "media", streamSid: S,
\* media: {payload: P}} on the Carrier Leg and nothing on the Agent Leg.
C5_AudioForwarded ==
    (/\ last.ev = "agentMessage"
     /\ last.frame.ok /\ last.frame.tag = "audio" /\ last.frame.body
     /\ Len(last.frame.payload) > 0
     /\ last.sid \in Sids)
        => SentToCarrierOnly(MediaOut(last.sid, last.frame.payload))

\* C5 (amended): the same, for a frame handled while the Carrier Leg is open.
C5_AudioForwardedWhileCarrierOpen ==
    (/\ last.ev = "agentMessage"
     /\ last.frame.ok /\ last.frame.tag = "audio" /\ last.frame.body
     /\ Len(last.frame.payload) > 0
     /\ last.sid \in Sids
     /\ last.ws = "OPEN")
        => SentToCarrierOnly(MediaOut(last.sid, last.frame.payload))

\* An `audio` frame was forwarded with the session's identifier.
C5_Witness ==
    /\ HandledAgent(AudioFrame(<<16, 20, 8, 64>>))
    /\ last.sid = "SID2"
    /\ last.ws = "OPEN"
    /\ toTwilio[Len(toTwilio)] = MediaOut("SID2", <<16, 20, 8, 64>>)

\* C6 (as claimed): an agent `interruption` frame puts exactly {event: "clear",
\* streamSid: s} on the Carrier Leg, s the sessionId at that moment, and
\* nothing on the Agent Leg.
C6_InterruptionClears ==
    HandledAgent(InterruptionFrame) => SentToCarrierOnly(ClearOut(last.sid))

\* C6 (amended): the same, for a frame handled while the Carrier Leg is open.
C6_InterruptionClearsWhileCarrierOpen ==
    (HandledAgent(InterruptionFrame) /\ last.ws = "OPEN")
        => SentToCarrierOnly(ClearOut(last.sid))

\* An `interruption` frame was answered by a `clear` frame, before `start`.
C6_Witness ==
    /\ HandledAgent(InterruptionFrame)
    /\ last.ws = "OPEN"
    /\ last.sid = Null
    /\ toTwilio[Len(toTwilio)] = ClearOut(Null)

MalformedCarrierFrames == {Unparseable, StartNoBody, MediaNoBody}
MalformedAgentFrames == {Unparseable, AudioNoBody, PingNoBody}

\* C8: a malformed frame on either leg leaves no exception uncaught, puts no
\* frame on either leg, leaves sessionId and both readyStates as they were, and
\* every frame handled next has the effect it would have had without it.
C8_MalformedFrameDropped ==
    (\/ last.ev = "carrierMessage" /\ last.frame \in MalformedCarrierFrames
     \/ last.ev = "agentMessage" /\ last.frame \in MalformedAgentFrames)
        => /\ ~crashed
           /\ NothingSent
           /\ SessionUntouched
           /\ \A f \in CarrierFrames :
                 OnCarrierMessage(f, streamSid, elevenLabsState)
                     = OnCarrierMessage(f, last.sid, last.el)
           /\ \A f \in AgentFrames :
                 OnAgentMessage(f, streamSid, wsState, elevenLabsState)
                     = OnAgentMessage(f, last.sid, last.ws, last.el)

\* A `start` frame without its `start` object was dropped, with sessionId set
\* and the Agent Leg open.
C8_Witness ==
    /\ HandledCarrier(StartNoBody)
    /\ last.caught
    /\ last.el = "OPEN"
    /\ streamSid \in Sids

\* C9: a `stop` frame leaves the Agent Leg closing or closed and the Carrier
\* Leg open; on an Agent Leg that is already closing or closed, a further
\* `stop` frame and the Carrier Leg's close change nothing and raise no error.
C9_StopThenCloseIsNoOp ==
    /\ HandledCarrier(StopFrame)
          => /\ wsState = "OPEN"
             /\ elevenLabsState \in {"CLOSING", "CLOSED"}
             /\ last.el \in {"CLOSING", "CLOSED"} => elevenLabsState = last.el
             /\ streamSid = last.sid
             /\ NothingSent /\ ~last.caught /\ ~crashed
    /\ (last.ev = "carrierClose" /\ last.el \in {"CLOSING", "CLOSED"})
          => /\ elevenLabsState = last.el
             /\ streamSid = last.sid
             /\ NothingSent /\ ~last.caught /\ ~crashed

\* The Carrier Leg closed after two `stop` frames, the Agent Leg still closing.
C9_Witness ==
    /\ last.ev = "carrierClose"
    /\ nStop = 2
    /\ last.el = "CLOSING"
    /\ elevenLabsState = "CLOSING"

\* C10 (as claimed): once sessionId is set, no handler changes it.
C10_SessionIdSetOnce == last.sid # Null => streamSid = last.sid

\* C11 (as claimed): a transport error on either leg leaves no exception
\* uncaught and ends the session: the handler of the error closes the other
\* leg.
C11_TransportErrorEndsSession ==
    /\ last.ev \in {"agentError", "carrierError"} => ~crashed
    /\ (last.ev = "agentError" /\ last.ws = "OPEN") => wsState # "OPEN"
    /\ last.ev = "carrierError" => elevenLabsState \in {"CLOSING", "CLOSED"}

\* The translation of the frame handled last, as the translation tables give
\* it: what goes on the Carrier Leg ...
TranslationToCarrier(l) ==
    IF l.ev = "agentMessage" /\ l.frame.ok /\ l.ws = "OPEN"
    THEN IF l.frame.tag = "audio" /\ l.frame.body /\ l.frame.payload # <<>>
         THEN <<MediaOut(l.sid, l.frame.payload)>>
         ELSE IF l.frame.tag = "interruption"
         THEN <<ClearOut(l.sid)>>
         ELSE <<>>
    ELSE <<>>

\* ... and what goes on the Agent Leg.
TranslationToAgent(l) ==
    IF l.ev = "carrierMessage" /\ l.frame.ok /\ l.el = "OPEN"
          /\ l.frame.tag = "media" /\ l.frame.body
    THEN <<ChunkOut(B64Encode(B64Decode(l.frame.payload)))>>
    ELSE IF l.ev = "agentMessage" /\ l.frame.ok /\ l.el = "OPEN"
          /\ l.frame.tag = "ping" /\ l.frame.body /\ l.frame.eid # 0
    THEN <<PongOut(l.frame.eid)>>
    ELSE <<>>

\* C12: every step leaves on each leg the frames that were there, in their
\* order, followed by the translation of the frame handled in that step, if
\* it is forwarded: nothing is held back, nothing overtakes.
C12_NoReorderingNoQueuing ==
    [][/\ toTwilio' = toTwilio \o TranslationToCarrier(last')
       /\ toElevenLabs' = toElevenLabs \o TranslationToAgent(last')]_vars

\* Frames from both legs were forwarded in turn: two frames on the Carrier
\* Leg, in the order of their arrival, and one on the Agent Leg in between.
C12_Witness ==
    /\ toTwilio = <<MediaOut("SID1", <<16, 20, 8, 64>>), ClearOut("SID1")>>
    /\ toElevenLabs = <<ChunkOut(<<16, 16, 64, 64>>)>>
    /\ HandledAgent(InterruptionFrame)
    /\ last.nA = 1

\* What a session is to its two ends: its identifier, the readyStates of its
\* legs and the frames it has put on them.
ThisSession ==
    <<streamSid, wsState, elevenLabsState, toTwilio, toElevenLabs>>

OtherSession ==
    <<peer.streamSid, peer.ws, peer.el, peer.toTwilio, peer.toElevenLabs>>

\* C13 (as claimed): with two sessions and their events interleaved, no event
\* changes the identifier, a readyState or the emitted frames of both
\* sessions: an event of one session leaves the other as it was.
C13_SessionsNeverInteract ==
    [][ThisSession' = ThisSession \/ OtherSession' = OtherSession]_vars

\* C14 (as claimed): once a `stop` frame has been handled or either leg has
\* left OPEN, the handler of an inbound frame puts no frame on either leg.
C14_TranslationOnlyWhileStreaming ==
    (/\ last.ev \in {"agentMessage", "carrierMessage"}
     /\ \/ last.ws # "OPEN"
        \/ last.el \in {"CLOSING", "CLOSED"})
        => NothingSent

\* C15 (as claimed): a frame put on the Carrier Leg carries the streamSid of
\* the moment, and once a frame has carried an identifier, every later frame
\* carries that identifier: none is unset, none is different.
C15_FramesCarryStartSid ==
    /\ \A i \in 1..Len(last.outC) : last.outC[i].streamSid = last.sid
    /\ \A i, j \in 1..Len(toTwilio) :
          (i < j /\ toTwilio[i].streamSid # Null)
              => toTwilio[j].streamSid = toTwilio[i].streamSid

\* C16 (as claimed): a `media` frame handled before any `start` frame puts no
\* frame on either leg, whatever the state of the Agent Leg.
C16_PreStartMediaDropped ==
    (HandledCarrierTag("media") /\ last.sid = Null) => NothingSent

\* C16 (amended): a `media` frame handled before any `start` frame is dropped
\* when the Agent Leg is not open and forwarded as a user_audio_chunk when it
\* is open; the handler of `start` delivers nothing.
C16_PreStartMediaNotBuffered ==
    /\ (HandledCarrierTag("media") /\ last.sid = Null /\ last.el # "OPEN")
          => NothingSent /\ ~last.caught
    /\ (/\ HandledCarrierTag("media") /\ last.frame.body
        /\ last.sid = Null /\ last.el = "OPEN")
          => SentToAgentOnly(
                 ChunkOut(B64Encode(B64Decode(last.frame.payload))))
    /\ HandledCarrierTag("start") => NothingSent

\* A `media` frame was forwarded before any `start`.
C16_Witness ==
    /\ HandledCarrier(MediaFrame(<<16, 20, 9, 3>>))
    /\ last.sid = Null
    /\ streamSid = Null
    /\ toElevenLabs = <<ChunkOut(<<16, 20, 9, 3>>)>>

\* The last frame handled is an agent `audio` frame with a payload or an agent
\* `interruption` frame, handled before any `start`.
PreStartAgentFrame ==
    /\ last.ev = "agentMessage"
    /\ last.frame.ok
    /\ last.sid = Null
    /\ \/ last.frame.tag = "interruption"
       \/ /\ last.frame.tag = "audio"
          /\ last.frame.body
          /\ last.frame.payload # <<>>

UntaggedTranslation ==
    IF last.frame.tag = "interruption"
    THEN ClearOut(Null)
    ELSE MediaOut(Null, last.frame.payload)

\* C17 (as claimed): an agent `audio` or `interruption` frame handled before
\* `start` puts exactly one frame on the Carrier Leg, with streamSid null.
C17_PreStartAgentFrameForwarded ==
    PreStartAgentFrame => SentToCarrierOnly(UntaggedTranslation)

\* C17 (amended): the same for a frame handled while the Carrier Leg is open;
\* and the handler of `start` leaves the frames on the Carrier Leg as they are.
C17_PreStartAgentFrameForwardedWhileCarrierOpen ==
    /\ []((PreStartAgentFrame /\ last.ws = "OPEN")
            => SentToCarrierOnly(UntaggedTranslation))
    /\ [][(last'.ev = "carrierMessage" /\ last'.frame.tag = "start")
            => toTwilio' = toTwilio]_vars

\* An `audio` frame went out untagged before `start`, and `start` left it so.
C17_Witness ==
    /\ HandledCarrier(StartFrame("SID1"))
    /\ streamSid = "SID1"
    /\ toTwilio = <<MediaOut(Null, <<16, 20, 8, 64>>)>>

\* C18: the handler of a `start` frame sets streamSid to the frame's
\* identifier, puts no frame on either leg and leaves both readyStates as they
\* were.
C18_StartOnlyRecords ==
    \A s \in Sids :
        HandledCarrier(StartFrame(s))
            => /\ streamSid = s
               /\ NothingSent
               /\ wsState = last.ws
               /\ elevenLabsState = last.el
               /\ ~last.caught /\ ~crashed

\* A second `start` frame was recorded, with frames already on both legs.
C18_Witness ==
    /\ HandledCarrier(StartFrame("SID2"))
    /\ last.sid = "SID1"
    /\ streamSid = "SID2"
    /\ last.el = "OPEN"
    /\ Len(toTwilio) = 1

\* Agent frames that match no translation rule: an unknown type, `audio`
\* without audio_event or with an empty audio_base_64, `ping` without
\* ping_event or with an event_id the code takes for absent.
UnmatchedAgentFrames ==
    {OtherType, AudioNoBody, AudioFrame(<<>>), PingNoBody, PingFrame(0)}

\* C19: an agent frame that matches no translation rule puts no frame on
\* either leg, raises no error and leaves streamSid and both readyStates as
\* they were.
C19_UnmatchedAgentFrameIgnored ==
    (last.ev = "agentMessage" /\ last.frame \in UnmatchedAgentFrames)
        => /\ NothingSent
           /\ SessionUntouched
           /\ ~last.caught /\ ~crashed

\* An `audio` frame without audio_event was ignored in an open session.
C19_Witness ==
    /\ HandledAgent(AudioNoBody)
    /\ last.el = "OPEN"
    /\ last.ws = "OPEN"
    /\ streamSid \in Sids

\* C20: the Agent Leg opens only from CONNECTING, where the session starts
\* it, and only once; after a `stop` frame or the close of the Carrier Leg it
\* is closing or closed, also when it was still connecting; a closing or
\* closed Agent Leg never is open or connecting again, and a `media` frame
\* that finds it so is dropped.
C20_NoReconnect ==
    /\ []((nStop > 0 \/ wsState = "CLOSED")
            => elevenLabsState \in {"CLOSING", "CLOSED"})
    /\ []((HandledCarrierTag("media") /\ last.el \in {"CLOSING", "CLOSED"})
            => NothingSent)
    /\ [][(elevenLabsState \in {"CLOSING", "CLOSED"})
            => (elevenLabsState' \in {"CLOSING", "CLOSED"})]_vars
    /\ [][(elevenLabsState' = "OPEN" /\ elevenLabsState # "OPEN")
            => (elevenLabsState = "CONNECTING" /\ ~elevenLabsOpened)]_vars
    /\ [][(elevenLabsState' = "CONNECTING")
            => (elevenLabsState = "CONNECTING")]_vars

\* A `stop` frame closed the Agent Leg while it was connecting, and a `media`
\* frame handled later was dropped.
C20_Witness ==
    /\ HandledCarrier(MediaFrame(<<16, 16, 64, 64>>))
    /\ nStop = 1
    /\ ~elevenLabsOpened
    /\ last.el = "CLOSING"
    /\ toElevenLabs = <<>>

\* Number of frames of type t among the frames put on the Agent Leg.
SentToAgent(t) ==
    Cardinality({i \in 1..Len(toElevenLabs) : toElevenLabs[i].type = t})

\* C21: no duplication and no spontaneous frames.  There are at most as many
\* user_audio_chunk frames as Carrier `media` frames handled, at most as many
\* pong frames as agent `ping` frames handled, and at most as many frames on
\* the Carrier Leg as agent `audio` and `interruption` frames handled; the
\* Agent Leg gets no frame of another type; a handler puts at most one frame
\* on one leg, and an event that is not a frame puts none.
C21_NoDuplicationNoSpontaneousFrames ==
    /\ SentToAgent("user_audio_chunk") <= handled.media
    /\ SentToAgent("pong") <= handled.ping
    /\ Len(toElevenLabs) = SentToAgent("user_audio_chunk") + SentToAgent("pong")
    /\ Len(toTwilio) <= handled.audio + handled.interruption
    /\ Len(last.outA) + Len(last.outC) <= 1
    /\ Len(toElevenLabs) = last.nA + Len(last.outA)
    /\ Len(toTwilio) = last.nC + Len(last.outC)
    /\ last.ev \notin {"agentMessage", "carrierMessage"} => NothingSent

\* Two `media` frames were handled and one was forwarded, the other dropped
\* after `stop`; one agent `audio` frame was handled and forwarded.
C21_Witness ==
    /\ handled = [media |-> 2, ping |-> 0, audio |-> 1, interruption |-> 0]
    /\ SentToAgent("user_audio_chunk") = 1
    /\ Len(toTwilio) = 1
    /\ nStop = 1

\* The if/else-chain relay (index.js:50-106; the second relay of part_000,
\* lines 282-338, is the same text) as the switch-based relay is recorded.
IfElseRelay ==
    [streamSid |-> streamSid, ws |-> wsState, el |-> elevenLabsState,
     toTwilio |-> toTwilio, toElevenLabs |-> toElevenLabs,
     crashed |-> crashed]

\* C22: the switch-based relay and the if/else-chain relay, run side by side
\* on the same frames and the same open, close and error events, have after
\* every step the same streamSid and the same readyStates of both legs, and
\* have put the same frames on the same legs in the same order.
C22_VariantsEquivalent == switchRelay = IfElseRelay

\* Both relays have recorded `start`, forwarded a `media` and an `audio` frame
\* and ignored an agent frame of an unknown type, the default of the switch.
C22_Witness ==
    /\ HandledAgent(OtherType)
    /\ switchRelay.streamSid = "SID1"
    /\ switchRelay.toTwilio = <<MediaOut("SID1", <<16, 20, 8, 64>>)>>
    /\ switchRelay.toElevenLabs = <<ChunkOut(<<16, 16, 64, 64>>)>>
    /\ toTwilio = switchRelay.toTwilio
    /\ toElevenLabs = switchRelay.toElevenLabs

====
